---- MODULE Spec2Model ----
(***************************************************************************)
(* FileTreer: the directory scanner (filetree_generator.py), its           *)
(* configuration (config.py) and the GUI that drives it (gui.py).          *)
(*                                                                         *)
(* Strings are sequences of one-character strings, so that lower-casing,   *)
(* code-point comparison and glob matching are computed, not assumed.      *)
(* The box-drawing connectors are written in ASCII: "|   " for the         *)
(* vertical bar, "+-- " for the branch and "L-- " for the corner.          *)
(* An optional integer (and any JSON value of the persisted configuration)  *)
(* is a record [t, v]: t is "null", "int", "str", "bool" or "float".       *)
(* The model is of a POSIX build (os.path.normcase is the identity) and of *)
(* a root that has a name; the scanner is also run with the file system's  *)
(* top directory "/" as the root, whose name is empty (SpecTop).           *)
(* os.scandir promises no order: a scan takes one of two orders, each the  *)
(* reverse of the other.  A directory whose listing fails raises           *)
(* PermissionError or OSError; the root may also be missing or a file.     *)
(*                                                                         *)
(* The specifications share the variables: Spec (the scanner on a tree),   *)
(* SpecTop (the scanner under "/"), SpecFilter (filter_ellipsis_children), *)
(* SpecIgnore (should_ignore), SpecConfig (the configuration from start-up *)
(* through the settings widgets) and SpecGui (the buttons, the worker      *)
(* threads and the callbacks of the main loop).                            *)
(***************************************************************************)
EXTENDS Integers, Sequences, FiniteSets, TLC

VARIABLES
    \* ---- the file system and the scanner (filetree_generator.py)
    rootState,      \* what os.scandir(root) raises, "ok" when it lists the
                    \* root, "top" when the root is "/" (which lists)
    fs,             \* the entries below the root: [path, dir, listing]
    config,         \* the Config object the generator reads
    runs,           \* one record per finished generate() call, oldest first
    \* ---- should_ignore on its own
    ig,             \* the last should_ignore call: [called, name, dir, result]
    \* ---- the GUI (gui.py)
    gui,            \* the buttons, the selected folder, the worker threads
                    \* and the callbacks queued with root.after
    cs              \* the settings widgets: the text of the two number
                    \* fields, the check boxes, the pattern text, the format

vars == <<rootState, fs, config, runs, ig, gui, cs>>

----------------------------------------------------------------------------
(* Bounds of the model *)

MaxNodes == 3        \* entries in the scanned tree
MaxTreeDepth == 3    \* levels below the root
MaxFaults == 1       \* directories whose listing fails
MaxScans == 2        \* generate() calls on one tree

----------------------------------------------------------------------------
(* Strings *)

\* Code points of the characters the model uses (Python compares str by them).
Ord(c) ==
    CASE c = "!" -> 33 [] c = "*" -> 42 [] c = "." -> 46 [] c = "/" -> 47
      [] c = "?" -> 63 [] c = "A" -> 65 [] c = "B" -> 66 [] c = "[" -> 91
      [] c = "]" -> 93 [] c = "a" -> 97 [] c = "b" -> 98 [] c = "h" -> 104
      [] c = "r" -> 114 [] OTHER -> 0

\* str.lower(), one character
LowerChar(c) == CASE c = "A" -> "a" [] c = "B" -> "b" [] OTHER -> c

\* str.lower()
Lower(s) == [i \in DOMAIN s |-> LowerChar(s[i])]

\* s < t for two str values: lexicographic on code points
RECURSIVE StrLess(_, _)
StrLess(s, t) ==
    IF t = <<>> THEN FALSE
    ELSE IF s = <<>> THEN TRUE
    ELSE IF Ord(Head(s)) # Ord(Head(t)) THEN Ord(Head(s)) < Ord(Head(t))
    ELSE StrLess(Tail(s), Tail(t))

\* list[:n] with Python's handling of a negative or too large n
SliceTo(seq, n) ==
    IF n >= 0 THEN SubSeq(seq, 1, IF n < Len(seq) THEN n ELSE Len(seq))
    ELSE SubSeq(seq, 1, IF Len(seq) + n > 0 THEN Len(seq) + n ELSE 0)

\* list[n:]
SliceFrom(seq, n) ==
    IF n >= 0 THEN SubSeq(seq, (IF n < Len(seq) THEN n ELSE Len(seq)) + 1, Len(seq))
    ELSE SubSeq(seq, (IF Len(seq) + n > 0 THEN Len(seq) + n ELSE 0) + 1, Len(seq))

None == [t |-> "null", v |-> 0]
IntVal(n) == [t |-> "int", v |-> n]

----------------------------------------------------------------------------
(* fnmatch.fnmatch on a POSIX build: the whole string against the pattern; *)
(* '*' any run of characters, '?' one character, '[...]' one character of  *)
(* the set ('[!...]' one not in it); a '[' that is never closed is itself. *)

\* Index of the ']' that closes the class opened just before position i of
\* pat, or 0: fnmatch.translate skips a leading '!' and a leading ']'.
RECURSIVE NextClose(_, _)
NextClose(pat, j) ==
    IF j > Len(pat) THEN 0
    ELSE IF pat[j] = "]" THEN j
    ELSE NextClose(pat, j + 1)

ClassEnd(pat, i) ==
    LET j1 == IF i <= Len(pat) /\ pat[i] = "!" THEN i + 1 ELSE i
        j2 == IF j1 <= Len(pat) /\ pat[j1] = "]" THEN j1 + 1 ELSE j1
    IN  NextClose(pat, j2)

ClassMatches(pat, i, j, c) ==
    LET neg == pat[i] = "!"
        from == IF neg THEN i + 1 ELSE i
        member == \E k \in from .. (j - 1) : pat[k] = c
    IN  IF neg THEN ~member ELSE member

RECURSIVE GlobFrom(_, _, _, _)
GlobFrom(s, pat, si, pi) ==
    IF pi > Len(pat) THEN si > Len(s)
    ELSE IF pat[pi] = "*" THEN
        \E k \in si .. (Len(s) + 1) : GlobFrom(s, pat, k, pi + 1)
    ELSE IF pat[pi] = "?" THEN
        si <= Len(s) /\ GlobFrom(s, pat, si + 1, pi + 1)
    ELSE IF pat[pi] = "[" /\ ClassEnd(pat, pi + 1) # 0 THEN
        /\ si <= Len(s)
        /\ ClassMatches(pat, pi + 1, ClassEnd(pat, pi + 1), s[si])
        /\ GlobFrom(s, pat, si + 1, ClassEnd(pat, pi + 1) + 1)
    ELSE
        si <= Len(s) /\ s[si] = pat[pi] /\ GlobFrom(s, pat, si + 1, pi + 1)

fnmatch(s, pat) == GlobFrom(s, pat, 1, 1)

----------------------------------------------------------------------------
(* Paths.  A path below the root is the sequence of its names.             *)

RootName == <<"r">>
RootStr == <<"/", "r">>          \* str(root_path)

\* root_path.name and str(root_path) without its last "/": both are empty
\* for the top directory
RootNameOf(rs) == IF rs = "top" THEN <<>> ELSE RootName
RootStrOf(rs) == IF rs = "top" THEN <<>> ELSE RootStr

RECURSIVE JoinPath(_)
JoinPath(names) ==
    IF names = <<>> THEN <<>> ELSE <<"/">> \o Head(names) \o JoinPath(Tail(names))

\* str(path) of the entry at `path`
PathStr(rs, path) == RootStrOf(rs) \o JoinPath(path)

\* path.name
BaseName(path) == path[Len(path)]

\* root_path.name of the directory at `path` (<<>> is the root)
DirName(path) == IF path = <<>> THEN RootName ELSE BaseName(path)

----------------------------------------------------------------------------
(* should_ignore *)

HasChar(p, c) == \E i \in DOMAIN p : p[i] = c
EndsWithSlash(p) == Len(p) > 0 /\ p[Len(p)] = "/"

\* self._ignore_patterns_set
_get_ignore_patterns(patterns) ==
    {p \in {patterns[i] : i \in DOMAIN patterns} :
        ~HasChar(p, "*") /\ ~HasChar(p, "?") /\ ~EndsWithSlash(p)}

should_ignore(rs, hidden, patterns, path, is_dir) ==
    LET name == BaseName(path)
        exact == _get_ignore_patterns(patterns)
    IN  \/ hidden /\ Len(name) > 0 /\ name[1] = "."
        \/ name \in exact
        \/ \E i \in DOMAIN patterns :
              LET pattern == patterns[i] IN
              /\ pattern \notin exact
              /\ IF EndsWithSlash(pattern)
                 THEN /\ is_dir
                      /\ LET p == SubSeq(pattern, 1, Len(pattern) - 1) IN
                         fnmatch(name, p) \/ fnmatch(PathStr(rs, path), p)
                 ELSE fnmatch(name, pattern) \/ fnmatch(PathStr(rs, path), pattern)

----------------------------------------------------------------------------
(* scan_directory *)

Ellipsis == <<".", ".", ".">>

\* The (Path, is_dir) pairs os.scandir yields for the directory at `dir`, in
\* the order `order` (a sequence of names) ranks them: the platform promises
\* no order.
scandir(tree, dir, order) ==
    LET present == SelectSeq(order,
                     LAMBDA n : \E e \in tree : e.path = Append(dir, n))
    IN  [i \in 1 .. Len(present) |->
            CHOOSE e \in tree : e.path = Append(dir, present[i])]

\* (mutant) the key compares the names as they are, not lower-cased
KeyLessCaseSensitive(x, y) ==
    \/ x.dir /\ ~y.dir
    \/ x.dir = y.dir /\ StrLess(BaseName(x.path), BaseName(y.path))

\* the key of entries.sort: (not is_dir, name.lower())
KeyLess(x, y) ==
    \/ x.dir /\ ~y.dir
    \/ x.dir = y.dir /\ StrLess(Lower(BaseName(x.path)), Lower(BaseName(y.path)))

\* list.sort is stable: an element goes after those whose key is not greater
RECURSIVE sort(_)
sort(seq) ==
    IF seq = <<>> THEN <<>>
    ELSE LET done == sort(SubSeq(seq, 1, Len(seq) - 1))
             x == seq[Len(seq)]
             pos == Cardinality({i \in DOMAIN done : ~KeyLess(x, done[i])})
         IN  SubSeq(done, 1, pos) \o <<x>> \o SubSeq(done, pos + 1, Len(done))

\* What os.scandir raises for the directory at `dir`, "ok" when it lists it
ListingRaises(tree, rs, dir) ==
    IF dir = <<>> THEN (IF rs = "top" THEN "ok" ELSE rs) ELSE (CHOOSE e \in tree : e.path = dir).listing

\* What a call returns or raises: [raised, tree]; raised is "None" on return.
Returns(file_tree) == [raised |-> "None", tree |-> file_tree]
Raises(exc, file_tree) == [raised |-> exc, tree |-> file_tree]

\* Whether Python orders an int against (slices a list by) a value of this type
Comparable(x) == x.t \in {"int", "bool", "float"}
Sliceable(x) == x.t \in {"int", "bool"}

\* (mutant) the depth test is off by one: > for >=
DepthLimitReachedLate(c, current_depth) ==
    c.max_depth.t # "null" /\ current_depth > c.max_depth.v

\* if self.config.max_depth is not None and current_depth >= self.config.max_depth
DepthLimitReached(c, current_depth) ==
    c.max_depth.t # "null" /\ current_depth >= c.max_depth.v

\* (mutant) only PermissionError is caught; any other error goes on up
ExceptClausesPermissionOnly(exc, file_tree) ==
    IF exc = "PermissionError" THEN Returns(file_tree) ELSE Raises(exc, file_tree)

\* The except clauses of scan_directory: PermissionError is passed over, any
\* other Exception is printed; both fall through to "return file_tree".
ExceptClauses(exc, file_tree) ==
    IF exc = "PermissionError" THEN Returns(file_tree) ELSE Returns(file_tree)

\* entries after the listing loop and entries.sort
list_entries(tree, rs, c, root_path, order) ==
    sort(SelectSeq(scandir(tree, root_path, order),
                   LAMBDA e : ~should_ignore(rs, c.ignore_hidden,
                                             c.ignore_patterns, e.path, e.dir)))

\* (mutant) the root is capped like any other directory
CappedAtRootToo(c, current_depth) ==
    c.max_items_per_level.t # "null"

\* Whether the cap applies at this depth
Capped(c, current_depth) ==
    /\ ~(current_depth = 0 /\ c.unlimit_root_items)
    /\ c.max_items_per_level.t # "null"

entries_to_process(c, current_depth, entries) ==
    IF Capped(c, current_depth)
    THEN SliceTo(entries, c.max_items_per_level.v) ELSE entries

has_more(c, current_depth, entries) ==
    Capped(c, current_depth) /\ Len(entries) > c.max_items_per_level.v

\* (mutant) the hint looks at the omitted entries only
use_branch_files_only(c, current_depth, entries) ==
    LET omitted_entries == SliceFrom(entries, c.max_items_per_level.v)
    IN  \E i \in DOMAIN omitted_entries : ~omitted_entries[i].dir

\* has_files_in_omitted and last_processed_is_dir
use_branch(c, current_depth, entries) ==
    LET omitted_entries == SliceFrom(entries, c.max_items_per_level.v)
        processed == entries_to_process(c, current_depth, entries)
    IN  /\ \E i \in DOMAIN omitted_entries : ~omitted_entries[i].dir
        /\ processed # <<>>
        /\ processed[Len(processed)].dir

\* (mutant) the omission entry is appended one level too deep
omission_entry_deeper(c, current_depth, entries) ==
    IF has_more(c, current_depth, entries)
    THEN <<[path |-> <<Ellipsis>>, depth |-> current_depth + 1,
            is_dir |-> FALSE, name |-> Ellipsis,
            has_more_files |->
                IF use_branch(c, current_depth, entries)
                THEN "True" ELSE "False"]>>
    ELSE <<>>

\* What is appended after the loop: the omission entry, or nothing
omission_entry(c, current_depth, entries) ==
    IF has_more(c, current_depth, entries)
    THEN <<[path |-> <<Ellipsis>>, depth |-> current_depth,
            is_dir |-> FALSE, name |-> Ellipsis,
            has_more_files |->
                IF use_branch(c, current_depth, entries)
                THEN "True" ELSE "False"]>>
    ELSE <<>>

\* The tuple appended for one entry; its path is relative to the parent of
\* the directory being scanned, and the top directory is its own parent
Item(rs, root_path, current_depth, e) ==
    [path |-> IF rs = "top" /\ root_path = <<>>
              THEN <<BaseName(e.path)>>
              ELSE <<DirName(root_path), BaseName(e.path)>>,
     depth |-> current_depth, is_dir |-> e.dir,
     name |-> BaseName(e.path), has_more_files |-> "None"]

\* The end of the try block and "return file_tree"
AfterLoop(c, current_depth, entries, walked) ==
    IF walked.raised # "None"
    THEN ExceptClauses(walked.raised, walked.tree)
    ELSE Returns(walked.tree \o omission_entry(c, current_depth, entries))

RECURSIVE scan_directory(_, _, _, _, _, _)
RECURSIVE ForLoop(_, _, _, _, _, _, _)

\* The for loop over entries_to_process: the entry is appended, then its
\* subtree; an exception out of the recursive call ends the loop.
ForLoop(tree, rs, c, root_path, current_depth, order, todo) ==
    IF todo = <<>> THEN Returns(<<>>)
    ELSE LET sub == IF Head(todo).dir
                    THEN scan_directory(tree, rs, c, Head(todo).path,
                                        current_depth + 1, order)
                    ELSE Returns(<<>>)
         IN  IF sub.raised # "None"
             THEN Raises(sub.raised, <<Item(rs, root_path, current_depth, Head(todo))>>)
             ELSE LET rest == ForLoop(tree, rs, c, root_path, current_depth,
                                      order, Tail(todo))
                  IN  [raised |-> rest.raised,
                       tree |-> <<Item(rs, root_path, current_depth, Head(todo))>>
                                  \o sub.tree \o rest.tree]

\* The try block once the directory is listed and sorted
TryBlock(tree, rs, c, root_path, current_depth, order, entries) ==
    IF Capped(c, current_depth) /\ ~Sliceable(c.max_items_per_level)
    THEN ExceptClauses("TypeError", <<>>)       \* entries[:max_items]
    ELSE AfterLoop(c, current_depth, entries,
                   ForLoop(tree, rs, c, root_path, current_depth, order,
                           entries_to_process(c, current_depth, entries)))

scan_directory(tree, rs, c, root_path, current_depth, order) ==
    IF c.max_depth.t # "null" /\ ~Comparable(c.max_depth)
    THEN Raises("TypeError", <<>>)          \* the comparison, outside the try
    ELSE IF DepthLimitReached(c, current_depth) THEN Returns(<<>>)
    ELSE IF ListingRaises(tree, rs, root_path) # "ok"
    THEN ExceptClauses(ListingRaises(tree, rs, root_path), <<>>)
    ELSE TryBlock(tree, rs, c, root_path, current_depth, order,
                  list_entries(tree, rs, c, root_path, order))

IsOmission(item) == item.path = <<Ellipsis>>

----------------------------------------------------------------------------
(* filter_ellipsis_children *)

\* The loop's state after the first i items: [out, skip]; skip is
\* skip_until_depth, -1 for None.
FilterLoop(file_tree) ==
    LET F[i \in 0 .. Len(file_tree)] ==
          IF i = 0 THEN [out |-> <<>>, skip |-> -1]
          ELSE LET st == F[i - 1]
                   it == file_tree[i]
               IN  IF IsOmission(it)
                   THEN [out |-> Append(st.out, it), skip |-> it.depth + 1]
                   ELSE IF st.skip # -1
                   THEN IF it.depth >= st.skip THEN st
                        ELSE [out |-> Append(st.out, it), skip |-> -1]
                   ELSE [out |-> Append(st.out, it), skip |-> st.skip]
    IN  F[Len(file_tree)]

filter_ellipsis_children(file_tree) == FilterLoop(file_tree).out

----------------------------------------------------------------------------
(* The renderers.  A line is a sequence of strings: the prefix columns,    *)
(* the connector, then the display name's characters.                      *)

has_next_at_depth(file_tree, pos, depth) ==
    \E idx \in (pos + 1) .. Len(file_tree) : file_tree[idx].depth = depth

is_last_in_parent(file_tree, pos, depth) ==
    IF depth = 0 THEN pos = Len(file_tree)
    ELSE LET stops == {j \in (pos + 1) .. Len(file_tree) :
                          file_tree[j].depth <= depth}
         IN  IF stops = {} THEN TRUE
             ELSE LET j == CHOOSE k \in stops : \A m \in stops : k <= m
                  IN  file_tree[j].depth < depth

DisplayName(item) ==
    IF IsOmission(item) THEN Ellipsis
    ELSE IF item.is_dir THEN item.name \o <<"/">> ELSE item.name

AsciiLine(file_tree, i) ==
    LET item == file_tree[i]
        prefix == [d \in 1 .. item.depth |->
                     IF has_next_at_depth(file_tree, i, d - 1)
                     THEN "|   " ELSE "    "]
        connector ==
            IF IsOmission(item)
            THEN (IF item.has_more_files = "True" THEN "+-- " ELSE "L-- ")
            ELSE (IF is_last_in_parent(file_tree, i, item.depth)
                  THEN "L-- " ELSE "+-- ")
    IN  prefix \o <<connector>> \o DisplayName(item)

generate_ascii_tree(root_name, file_tree) ==
    <<root_name \o <<"/">>>>
      \o [i \in 1 .. Len(file_tree) |-> AsciiLine(file_tree, i)]

generate_markdown_tree(root_name, file_tree) ==
    <<<<"- ">> \o root_name \o <<"/">>>>
      \o [i \in 1 .. Len(file_tree) |->
            [d \in 1 .. (file_tree[i].depth + 1) |-> "    "]
              \o <<"- ">> \o DisplayName(file_tree[i])]

----------------------------------------------------------------------------
(* generate *)

\* sum(1 for item in self.file_tree if not item[2]), and if item[2]
file_count(file_tree) ==
    Cardinality({i \in DOMAIN file_tree : ~file_tree[i].is_dir})
dir_count(file_tree) ==
    Cardinality({i \in DOMAIN file_tree : file_tree[i].is_dir})

\* One generate() call: what it raises ("None" when it returns), the raw
\* scan, self.file_tree and the result envelope.
Envelope(rs, c, raw_file_tree, file_tree) ==
    [raised |-> "None", raw |-> raw_file_tree, file_tree |-> file_tree,
     content |-> IF c.output_format # "markdown"
                 THEN generate_ascii_tree(RootNameOf(rs), file_tree)
                 ELSE generate_markdown_tree(RootNameOf(rs), file_tree),
     format |-> IF c.output_format # "markdown" THEN "ascii" ELSE "markdown",
     files |-> file_count(file_tree),
     dirs |-> dir_count(file_tree)]

AfterScan(rs, c, scanned) ==
    IF scanned.raised # "None"
    THEN [raised |-> scanned.raised, raw |-> <<>>, file_tree |-> <<>>,
          content |-> <<>>, format |-> "", files |-> 0, dirs |-> 0]
    ELSE Envelope(rs, c, scanned.tree, filter_ellipsis_children(scanned.tree))

generate(tree, rs, c, order) ==
    AfterScan(rs, c, scan_directory(tree, rs, c, <<>>, 0, order))

----------------------------------------------------------------------------
(* The state machine of the scanner: a tree is laid out, then generate()   *)
(* runs on it, more than once, while the tree stays as it is.              *)

TreeNames == {<<"a">>, <<"A">>, <<"B">>}
ListingErrors == {"PermissionError", "OSError"}
RootErrors == {"FileNotFoundError", "NotADirectoryError"}

\* Two orders in which a listing may yield the names, one the reverse of the
\* other: every two names come in both orders.
ListingOrders == {<<<<"a">>, <<"A">>, <<"B">>, Ellipsis>>,
                  <<Ellipsis, <<"B">>, <<"A">>, <<"a">>>>}

\* Config.DEFAULT_IGNORE_PATTERNS
DEFAULT_IGNORE_PATTERNS ==
    << <<".", "g", "i", "t">>,
       <<".", "g", "i", "t", "i", "g", "n", "o", "r", "e">>,
       <<"_", "_", "p", "y", "c", "a", "c", "h", "e", "_", "_">>,
       <<"*", ".", "p", "y", "c">>,
       <<"n", "o", "d", "e", "_", "m", "o", "d", "u", "l", "e", "s">>,
       <<".", "v", "s", "c", "o", "d", "e">>,
       <<".", "i", "d", "e", "a">>,
       <<".", "D", "S", "_", "S", "t", "o", "r", "e">> >>

\* Config.__init__: the defaults
DefaultConfig ==
    [ignore_hidden |-> TRUE,
     ignore_patterns |-> DEFAULT_IGNORE_PATTERNS,
     max_depth |-> IntVal(4),
     max_items_per_level |-> IntVal(15),
     unlimit_root_items |-> TRUE,
     output_format |-> "ascii"]

ScanPatternLists == {<<<<"A", "/">>>>}

AllScanConfigs ==
    [ignore_hidden : {TRUE},
     ignore_patterns : ScanPatternLists,
     max_depth : {None, IntVal(0), IntVal(1), IntVal(2)},
     max_items_per_level : {None, IntVal(1), IntVal(2)},
     unlimit_root_items : BOOLEAN,
     output_format : {"ascii", "markdown"}]

\* The configurations the scans run under: unlimit_root_items matters only
\* with a cap, and the Markdown renderer is run on uncut scans.
ScanConfigs ==
    {c \in AllScanConfigs :
        /\ c.max_items_per_level = None => ~c.unlimit_root_items
        /\ c.output_format = "markdown" =>
              c.max_depth = None /\ c.max_items_per_level = None}

\* No should_ignore call yet
IgNew == [called |-> FALSE, name |-> <<>>, dir |-> FALSE, result |-> FALSE]

\* FileTreeApp.__init__: no folder, the three buttons disabled, no thread,
\* nothing queued with root.after
GuiNew ==
    [generate_button |-> "disabled", copy_button |-> "disabled",
     save_button |-> "disabled", selected_path |-> "None",
     threads |-> {}, after |-> <<>>, started |-> 0, writes |-> 0]

\* The widgets before main() has loaded the configuration into them
UiStart ==
    [phase |-> "start", ignore_hidden_var |-> TRUE, ignore_patterns_text |-> <<>>,
     max_depth_var |-> <<>>, max_items_var |-> <<>>,
     unlimit_root_var |-> TRUE, format_var |-> "ascii"]

Faults == Cardinality({e \in fs : e.listing # "ok"})

InitScan ==
    /\ rootState \in {"ok"} \cup ListingErrors \cup RootErrors
    /\ fs = {}
    /\ config = DefaultConfig
    /\ runs = <<>>
    /\ ig = IgNew /\ gui = GuiNew /\ cs = UiStart

\* The environment: one more entry of the tree that os.scandir will meet.
\* The tree is laid out first, then the configuration is set, then the scans
\* run on the tree as it is.
AddEntry(parent, name, is_dir, listing) ==
    /\ runs = <<>> /\ config = DefaultConfig
    /\ rootState = "ok"
    /\ Cardinality(fs) < MaxNodes
    /\ Len(parent) < MaxTreeDepth
    /\ parent = <<>> \/ \E d \in fs : d.path = parent /\ d.dir
    /\ \A e \in fs : e.path # Append(parent, name)
    /\ listing # "ok" => is_dir /\ Faults < MaxFaults
    /\ fs' = fs \cup {[path |-> Append(parent, name), dir |-> is_dir,
                       listing |-> listing]}
    /\ UNCHANGED <<rootState, config, runs, ig, gui, cs>>

\* The caller sets the fields of the Config object before the first scan
Configure(c) ==
    /\ runs = <<>> /\ config = DefaultConfig
    /\ config' = c
    /\ UNCHANGED <<rootState, fs, runs, ig, gui, cs>>

Generate(order) ==
    /\ Len(runs) < MaxScans
    /\ runs' = Append(runs, generate(fs, rootState, config, order))
    /\ UNCHANGED <<rootState, fs, config, ig, gui, cs>>

NextScan ==
    \/ \E parent \in {<<>>} \cup {e.path : e \in fs}, name \in TreeNames,
          is_dir \in BOOLEAN, listing \in {"ok"} \cup ListingErrors :
          AddEntry(parent, name, is_dir, listing)
    \/ \E c \in ScanConfigs : Configure(c)
    \/ \E order \in ListingOrders : Generate(order)

Spec == InitScan /\ [][NextScan]_vars

----------------------------------------------------------------------------
(* The scanner with the top directory "/" as the root.  The tree is one of *)
(* the parent-closed parts of a fixed tree: a directory named "..." with   *)
(* two files, a directory "a" holding a directory "a" with a file, and a   *)
(* directory "B" with a file.                                              *)

TopEntries ==
    {[path |-> <<Ellipsis>>, dir |-> TRUE, listing |-> "ok"],
     [path |-> <<Ellipsis, <<"a">>>>, dir |-> FALSE, listing |-> "ok"],
     [path |-> <<Ellipsis, <<"B">>>>, dir |-> FALSE, listing |-> "ok"],
     [path |-> <<<<"a">>>>, dir |-> TRUE, listing |-> "ok"],
     [path |-> <<<<"a">>, <<"a">>>>, dir |-> TRUE, listing |-> "ok"],
     [path |-> <<<<"a">>, <<"a">>, <<"a">>>>, dir |-> FALSE, listing |-> "ok"],
     [path |-> <<<<"B">>>>, dir |-> TRUE, listing |-> "ok"],
     [path |-> <<<<"B">>, <<"a">>>>, dir |-> FALSE, listing |-> "ok"]}

TopTrees ==
    {t \in SUBSET TopEntries :
        \A e \in t : Len(e.path) > 1 =>
            \E d \in t : d.path = SubSeq(e.path, 1, Len(e.path) - 1)}

\* The configurations of these scans: hidden names ignored or not, with and
\* without a depth limit and a cap
TopConfigs ==
    [ignore_hidden : BOOLEAN,
     ignore_patterns : ScanPatternLists,
     max_depth : {None, IntVal(2)},
     max_items_per_level : {None, IntVal(1)},
     unlimit_root_items : BOOLEAN,
     output_format : {"ascii"}]

InitTop ==
    /\ rootState = "top"
    /\ fs \in TopTrees
    /\ config = DefaultConfig
    /\ runs = <<>>
    /\ ig = IgNew /\ gui = GuiNew /\ cs = UiStart

NextTop ==
    \/ \E c \in TopConfigs : Configure(c)
    \/ \E order \in ListingOrders : Generate(order)

SpecTop == InitTop /\ [][NextTop]_vars

----------------------------------------------------------------------------
(* filter_ellipsis_children on its own: generate() hands it a depth-tagged *)
(* sequence, any sequence and not only one that scan_directory returns.    *)

MaxFilterLen == 3      \* entries in the sequence handed to the filter
MaxFilterDepth == 2    \* the deepest entry in it

\* The entries of these sequences: a file "a" or an omission entry, at any
\* depth
FilterEntries ==
    {[path |-> <<RootName, <<"a">>>>, depth |-> d, is_dir |-> FALSE,
      name |-> <<"a">>, has_more_files |-> "None"] : d \in 0 .. MaxFilterDepth}
    \cup
    {[path |-> <<Ellipsis>>, depth |-> d, is_dir |-> FALSE,
      name |-> Ellipsis, has_more_files |-> "False"] : d \in 0 .. MaxFilterDepth}

FilterInputs ==
    UNION {[1 .. n -> FilterEntries] : n \in 0 .. MaxFilterLen}

InitFilter ==
    /\ rootState = "ok" /\ fs = {} /\ runs = <<>>
    /\ config = DefaultConfig
    /\ ig = IgNew /\ gui = GuiNew /\ cs = UiStart

\* generate() from the return of scan_directory on: the sequence is
\* filtered, rendered and counted
FilterCall(raw_file_tree) ==
    /\ runs = <<>>
    /\ runs' = <<AfterScan(rootState, config, Returns(raw_file_tree))>>
    /\ UNCHANGED <<rootState, fs, config, ig, gui, cs>>

NextFilter == \E raw_file_tree \in FilterInputs : FilterCall(raw_file_tree)

SpecFilter == InitFilter /\ [][NextFilter]_vars

----------------------------------------------------------------------------
(* should_ignore on its own: a generator is made over a configuration, and *)
(* should_ignore is called on children of the root, always with is_dir     *)
(* given, as scan_directory calls it.                                      *)

IgnorePatterns ==
    {<<"a">>, <<"[", "a", "b", "]">>, <<"*", "b">>, <<"a", "/">>, <<"?">>,
     <<"/", "r", "/", "b">>}
IgnoreNames == {<<"a">>, <<"b">>, <<"a", "b">>, <<".", "a">>}
MaxPatterns == 2     \* patterns in one ignore list

RECURSIVE IgnoreListsOfLen(_)
IgnoreListsOfLen(n) ==
    IF n = 0 THEN {<<>>}
    ELSE {Append(l, p) : l \in IgnoreListsOfLen(n - 1), p \in IgnorePatterns}

IgnoreLists == UNION {IgnoreListsOfLen(n) : n \in 0 .. MaxPatterns}

InitIgnore ==
    /\ rootState = "ok" /\ fs = {} /\ runs = <<>>
    /\ config \in {[DefaultConfig EXCEPT !.ignore_hidden = h,
                                          !.ignore_patterns = ps] :
                     h \in BOOLEAN,
                     ps \in IgnoreLists}
    /\ ig = IgNew /\ gui = GuiNew /\ cs = UiStart

CallShouldIgnore(name, is_dir) ==
    /\ ig' = [called |-> TRUE, name |-> name, dir |-> is_dir,
              result |-> should_ignore(rootState, config.ignore_hidden,
                                       config.ignore_patterns, <<name>>, is_dir)]
    /\ UNCHANGED <<rootState, fs, config, runs, gui, cs>>

NextIgnore ==
    \E name \in IgnoreNames, is_dir \in BOOLEAN : CallShouldIgnore(name, is_dir)

SpecIgnore == InitIgnore /\ [][NextIgnore]_vars

----------------------------------------------------------------------------
(* The configuration and the settings widgets (config.py, gui.py).  Text   *)
(* is a sequence of characters; the pattern text is a sequence of lines.   *)

IsSpace(ch) == ch = " "
IsDigit(ch) == ch \in {"0", "1", "2", "3", "4", "5", "6", "7", "8", "9"}
DigitVal(ch) ==
    CASE ch = "0" -> 0 [] ch = "1" -> 1 [] ch = "2" -> 2 [] ch = "3" -> 3
      [] ch = "4" -> 4 [] ch = "5" -> 5 [] ch = "6" -> 6 [] ch = "7" -> 7
      [] ch = "8" -> 8 [] OTHER -> 9
DigitChar(d) == <<"0", "1", "2", "3", "4", "5", "6", "7", "8", "9">>[d + 1]

\* s.lstrip() and s.strip()
RECURSIVE LStrip(_)
LStrip(text) ==
    IF text # <<>> /\ IsSpace(Head(text)) THEN LStrip(Tail(text)) ELSE text

RECURSIVE strip(_)
strip(text) ==
    IF LStrip(text) # <<>> /\ IsSpace(LStrip(text)[Len(LStrip(text))])
    THEN strip(SubSeq(LStrip(text), 1, Len(LStrip(text)) - 1))
    ELSE LStrip(text)

\* The value of a run of decimal digits
RECURSIVE DigitsVal(_)
DigitsVal(digits) ==
    IF digits = <<>> THEN 0
    ELSE DigitsVal(SubSeq(digits, 1, Len(digits) - 1)) * 10
           + DigitVal(digits[Len(digits)])

AllDigits(text) == text # <<>> /\ \A i \in DOMAIN text : IsDigit(text[i])

\* int(text): [ok, v]; ok is FALSE where Python raises ValueError.  White
\* space around the number and one sign before it are accepted.
IntOfStripped(text) ==
    IF text # <<>> /\ Head(text) \in {"-", "+"}
    THEN [ok |-> AllDigits(Tail(text)),
          v |-> IF Head(text) = "-" THEN 0 - DigitsVal(Tail(text))
                ELSE DigitsVal(Tail(text))]
    ELSE [ok |-> AllDigits(text), v |-> DigitsVal(text)]

int(text) == IntOfStripped(strip(text))

\* str(n) of a natural number, and of an integer
RECURSIVE StrNat(_)
StrNat(n) ==
    IF n < 10 THEN <<DigitChar(n)>>
    ELSE StrNat(n \div 10) \o <<DigitChar(n % 10)>>

\* A JSON string value; the one string of the model is "x"
StrVal == [t |-> "str", v |-> 0]

\* str(value) of what a configuration field may hold
str(x) ==
    CASE x.t = "int" -> IF x.v < 0 THEN <<"-">> \o StrNat(0 - x.v) ELSE StrNat(x.v)
      [] x.t = "str" -> <<"x">>
      [] OTHER -> <<"N", "o", "n", "e">>

\* max(1, items)
Max(a, b) == IF a >= b THEN a ELSE b

\* list(dict.fromkeys(seq)): the first occurrence of each element, in order
RECURSIVE Dedupe(_)
Dedupe(seq) ==
    IF seq = <<>> THEN <<>>
    ELSE IF \E i \in 1 .. (Len(seq) - 1) : seq[i] = seq[Len(seq)]
    THEN Dedupe(SubSeq(seq, 1, Len(seq) - 1))
    ELSE Append(Dedupe(SubSeq(seq, 1, Len(seq) - 1)), seq[Len(seq)])

StrippedLines(lines) == [i \in DOMAIN lines |-> strip(lines[i])]

\* Config.set_ignore_patterns_from_string, on the lines of the text
set_ignore_patterns_from_string(lines) ==
    IF \A i \in DOMAIN lines : strip(lines[i]) = <<>> THEN <<>>
    ELSE Dedupe(DEFAULT_IGNORE_PATTERNS
                  \o SelectSeq(StrippedLines(lines),
                               LAMBDA line : line # <<>> /\ Head(line) # "#"))

\* FileTreeApp.save_ui_to_config: the Config after it, from the widgets
MaxDepthOfText(text) ==
    IF strip(text) = <<>> THEN None
    ELSE IF int(strip(text)).ok THEN IntVal(int(strip(text)).v)
    ELSE IntVal(4)

MaxItemsOfText(text) ==
    IF strip(text) = <<>> THEN None
    ELSE IF int(strip(text)).ok THEN IntVal(Max(1, int(strip(text)).v))
    ELSE None

save_ui_to_config(ui) ==
    [ignore_hidden |-> ui.ignore_hidden_var,
     ignore_patterns |-> set_ignore_patterns_from_string(ui.ignore_patterns_text),
     max_depth |-> MaxDepthOfText(ui.max_depth_var),
     max_items_per_level |-> MaxItemsOfText(ui.max_items_var),
     unlimit_root_items |-> ui.unlimit_root_var,
     output_format |-> ui.format_var]

\* FileTreeApp.load_config_to_ui: the widgets after it
load_config_to_ui(c) ==
    [phase |-> "ui",
     ignore_hidden_var |-> c.ignore_hidden,
     ignore_patterns_text |-> c.ignore_patterns,
     max_depth_var |-> IF c.max_depth # None THEN str(c.max_depth) ELSE <<>>,
     max_items_var |-> IF c.max_items_per_level # None
                       THEN str(c.max_items_per_level) ELSE <<>>,
     unlimit_root_var |-> c.unlimit_root_items,
     format_var |-> c.output_format]

\* Config.from_dict: data is a JSON object, [keys, and a value per key]
from_dict(data) ==
    [ignore_hidden |->
        IF "ignore_hidden" \in data.keys THEN data.ignore_hidden ELSE TRUE,
     ignore_patterns |->
        IF "ignore_patterns" \in data.keys THEN data.ignore_patterns
        ELSE DEFAULT_IGNORE_PATTERNS,
     max_depth |-> IF "max_depth" \in data.keys THEN data.max_depth ELSE IntVal(4),
     max_items_per_level |->
        IF "max_items_per_level" \in data.keys THEN data.max_items_per_level
        ELSE IntVal(15),
     unlimit_root_items |->
        IF "unlimit_root_items" \in data.keys THEN data.unlimit_root_items
        ELSE TRUE,
     output_format |->
        IF "output_format" \in data.keys
             /\ data.output_format \in {"ascii", "markdown"}
        THEN data.output_format ELSE "ascii"]

\* What the two number fields hold in a JSON file
JsonValues == {None, IntVal(-1), IntVal(0), IntVal(3), StrVal}

JsonKeys == {"ignore_hidden", "ignore_patterns", "max_depth",
             "max_items_per_level", "unlimit_root_items", "output_format"}

\* The JSON objects of the model: the empty one, and full ones whose other
\* fields are well typed
JsonObjects ==
    {[keys |-> k, ignore_hidden |-> FALSE, ignore_patterns |-> <<>>,
      max_depth |-> d, max_items_per_level |-> m,
      unlimit_root_items |-> FALSE,
      output_format |-> IF d = None THEN "html" ELSE "markdown"] :
        k \in {JsonKeys}, d \in JsonValues, m \in JsonValues}
    \cup {[keys |-> {}, ignore_hidden |-> FALSE, ignore_patterns |-> <<>>,
           max_depth |-> None, max_items_per_level |-> None,
           unlimit_root_items |-> FALSE, output_format |-> "ascii"]}

\* What the user types into a number field
Texts == {<<>>, <<"-", "1">>, <<"0">>, <<" ", "2">>, <<"x">>}

\* What the user sets the check boxes, the pattern text and the format to
UiOptions ==
    {[ignore_hidden_var |-> FALSE,
      ignore_patterns_text |-> <<<<" ", "a">>, <<"#", "c">>, <<>>>>,
      unlimit_root_var |-> FALSE, format_var |-> "markdown"]}

InitConfig ==
    /\ rootState = "ok" /\ fs = {} /\ runs = <<>>
    /\ config = DefaultConfig
    /\ ig = IgNew /\ gui = GuiNew /\ cs = UiStart

\* Config.load_config at start-up: the file is missing, or does not parse
\* as a JSON object (the defaults are set again), or holds the object data
load_config(kind, data) ==
    /\ cs.phase = "start"
    /\ cs' = [cs EXCEPT !.phase = "loaded"]
    /\ config' = CASE kind = "missing" -> config
                   [] kind = "invalid" -> DefaultConfig
                   [] OTHER -> from_dict(data)
    /\ UNCHANGED <<rootState, fs, runs, ig, gui>>

\* FileTreeApp.__init__ ends with load_config_to_ui
StartApp ==
    /\ cs.phase = "loaded"
    /\ cs' = load_config_to_ui(config)
    /\ UNCHANGED <<rootState, fs, config, runs, ig, gui>>

TypeMaxDepth(text) ==
    /\ cs.phase = "ui"
    /\ cs' = [cs EXCEPT !.max_depth_var = text]
    /\ UNCHANGED <<rootState, fs, config, runs, ig, gui>>

TypeMaxItems(text) ==
    /\ cs.phase = "ui"
    /\ cs' = [cs EXCEPT !.max_items_var = text]
    /\ UNCHANGED <<rootState, fs, config, runs, ig, gui>>

SetOptions(o) ==
    /\ cs.phase = "ui"
    /\ cs' = [cs EXCEPT !.ignore_hidden_var = o.ignore_hidden_var,
                        !.ignore_patterns_text = o.ignore_patterns_text,
                        !.unlimit_root_var = o.unlimit_root_var,
                        !.format_var = o.format_var]
    /\ UNCHANGED <<rootState, fs, config, runs, ig, gui>>

\* save_ui_to_config as generate_tree and on_closing call it
SaveUiToConfig ==
    /\ cs.phase = "ui"
    /\ config' = save_ui_to_config(cs)
    /\ UNCHANGED <<rootState, fs, runs, ig, gui, cs>>

NextConfig ==
    \/ \E kind \in {"missing", "invalid", "object"}, data \in JsonObjects :
          load_config(kind, data)
    \/ StartApp
    \/ \E text \in Texts : TypeMaxDepth(text)
    \/ \E text \in Texts : TypeMaxItems(text)
    \/ \E o \in UiOptions : SetOptions(o)
    \/ SaveUiToConfig

SpecConfig == InitConfig /\ [][NextConfig]_vars

----------------------------------------------------------------------------
(* The GUI (gui.py): the Tk main thread runs the button handlers and the   *)
(* callbacks queued with root.after, one at a time; each generation        *)
(* request starts a worker thread that runs beside it.                     *)

MaxRequests == 3     \* generation requests (calls of save_ui_to_config)

Folders == {"p", "q"}

\* FileTreeApp.check_unlimited_settings
check_unlimited_settings(c) ==
    \/ c.max_depth = None
    \/ c.max_items_per_level = None
    \/ c.unlimit_root_items

\* The application after main() has started it: the configuration is loaded
\* and shown in the widgets
InitGui ==
    /\ rootState = "ok" /\ fs = {} /\ runs = <<>>
    /\ config \in {DefaultConfig,
                   [DefaultConfig EXCEPT !.unlimit_root_items = FALSE]}
    /\ ig = IgNew
    /\ gui = GuiNew
    /\ cs = load_config_to_ui(config)

\* select_folder: folder is what the dialogue returns, "" when it is cancelled
select_folder(folder) ==
    /\ gui' = IF folder # ""
              THEN [gui EXCEPT !.selected_path = folder,
                               !.generate_button = "normal"]
              ELSE gui
    /\ UNCHANGED <<rootState, fs, config, runs, ig, cs>>

\* generate_tree, the command of the generate button: exists is what
\* selected_path.exists() gives, answer what the user says to the warning
generate_tree(exists, answer) ==
    /\ gui.generate_button = "normal"
    /\ gui.writes < MaxRequests
    /\ IF gui.selected_path = "None" \/ ~exists
       THEN UNCHANGED <<gui, config>>
       ELSE /\ config' = save_ui_to_config(cs)
            /\ IF check_unlimited_settings(save_ui_to_config(cs)) /\ ~answer
               THEN gui' = [gui EXCEPT !.writes = @ + 1]
               ELSE gui' = [gui EXCEPT
                      !.writes = @ + 1,
                      !.started = @ + 1,
                      !.generate_button = "disabled",
                      !.copy_button = "disabled",
                      !.save_button = "disabled",
                      !.threads = @ \cup {[request |-> gui.started + 1,
                                           pc |-> "start",
                                           path |-> "None",
                                           writes |-> gui.writes + 1]}]
    /\ UNCHANGED <<rootState, fs, runs, ig, cs>>

\* _generate_tree_thread, up to the call of generate: the generator is made
\* over the shared Config and reads self.selected_path
ThreadScans(t) ==
    /\ t \in gui.threads /\ t.pc = "start"
    /\ gui' = [gui EXCEPT !.threads = (@ \ {t})
                 \cup {[t EXCEPT !.pc = "scan", !.path = gui.selected_path]}]
    /\ UNCHANGED <<rootState, fs, config, runs, ig, cs>>

\* _generate_tree_thread, from the return of generate: the result is handed
\* to _update_preview, or, when generate raised, three callbacks are queued
ThreadEnds(t, raised) ==
    /\ t \in gui.threads /\ t.pc = "scan"
    /\ gui' = [gui EXCEPT
          !.threads = @ \ {t},
          !.after = IF raised
                    THEN @ \o <<[f |-> "showerror", request |-> t.request],
                                [f |-> "status", request |-> t.request],
                                [f |-> "enable", request |-> t.request]>>
                    ELSE Append(@, [f |-> "_update_preview",
                                    request |-> t.request])]
    /\ UNCHANGED <<rootState, fs, config, runs, ig, cs>>

\* The main loop runs the callback at the head of the queue
_update_preview ==
    /\ gui.after # <<>> /\ Head(gui.after).f = "_update_preview"
    /\ gui' = [gui EXCEPT !.after = Tail(@),
                          !.generate_button = "normal",
                          !.copy_button = "normal",
                          !.save_button = "normal"]
    /\ UNCHANGED <<rootState, fs, config, runs, ig, cs>>

FailureCallback ==
    /\ gui.after # <<>> /\ Head(gui.after).f # "_update_preview"
    /\ gui' = [gui EXCEPT !.after = Tail(@),
                          !.generate_button =
                              IF Head(gui.after).f = "enable" THEN "normal" ELSE @]
    /\ UNCHANGED <<rootState, fs, config, runs, ig, cs>>

NextGui ==
    \/ \E folder \in Folders \cup {""} : select_folder(folder)
    \/ \E exists \in BOOLEAN, answer \in BOOLEAN : generate_tree(exists, answer)
    \/ \E t \in gui.threads : ThreadScans(t)
    \/ \E t \in gui.threads, raised \in BOOLEAN : ThreadEnds(t, raised)
    \/ _update_preview
    \/ FailureCallback

SpecGui == InitGui /\ [][NextGui]_vars

----------------------------------------------------------------------------
(* Reading a flat sequence back as a tree, for the properties below.  The  *)
(* block of the entry at index i is what follows it down to the next entry *)
(* that is not deeper; index 0 stands for the root, whose block is the     *)
(* whole sequence.                                                         *)

MinOf(S) == CHOOSE k \in S : \A m \in S : k <= m

BlockEnd(ft, i) ==
    IF i = 0 THEN Len(ft)
    ELSE LET later == {j \in (i + 1) .. Len(ft) : ft[j].depth <= ft[i].depth}
         IN  IF later = {} THEN Len(ft) ELSE MinOf(later) - 1

\* The indices of the entries drawn as children of entry i
ChildIdx(ft, i) ==
    {j \in (i + 1) .. BlockEnd(ft, i) :
        ft[j].depth = (IF i = 0 THEN 0 ELSE ft[i].depth + 1)}

\* An entry the scan appended as an omission entry: only those carry the flag
IsMarker(item) == item.has_more_files # "None"

RealChildIdx(ft, i) == {j \in ChildIdx(ft, i) : ~IsMarker(ft[j])}
OmissionIdx(ft, i) == {j \in ChildIdx(ft, i) : IsMarker(ft[j])}

\* The index in ft of the entry for the tree path P: 0 for the root, -1 when
\* the entry is not there.
RECURSIVE Locate(_, _)
Locate(ft, P) ==
    IF P = <<>> THEN 0
    ELSE LET up == Locate(ft, SubSeq(P, 1, Len(P) - 1)) IN
         IF up = -1 THEN -1
         ELSE LET c == {j \in RealChildIdx(ft, up) : ft[j].name = BaseName(P)}
              IN  IF c = {} THEN -1 ELSE MinOf(c)

ParentOf(P) == SubSeq(P, 1, Len(P) - 1)

\* The directories of the tree, the root (<<>>) among them
DirPaths == {<<>>} \cup {e.path : e \in {x \in fs : x.dir}}

Listable(P) ==
    IF P = <<>> THEN rootState \in {"ok", "top"}
    ELSE \E e \in fs : e.path = P /\ e.dir /\ e.listing = "ok"

\* The children of the directory P that the ignore rules let through
Eligible(P) ==
    {e \in fs : ParentOf(e.path) = P /\ Len(e.path) = Len(P) + 1
                /\ ~should_ignore(rootState, config.ignore_hidden,
                                  config.ignore_patterns, e.path, e.dir)}

\* P's listing is really read in the scan that gave ft: its entry is there,
\* the depth limit lets the scan in and the listing succeeds.
Scanned(ft, P) ==
    /\ Locate(ft, P) # -1
    /\ Listable(P)
    /\ config.max_depth.t = "null" \/ Len(P) < config.max_depth.v

\* The cap applies to the children of P
CappedLevel(P) ==
    /\ config.max_items_per_level.t = "int"
    /\ config.max_items_per_level.v >= 1
    /\ Len(P) > 0 \/ ~config.unlimit_root_items

\* x comes strictly before y in the documented sibling order
SortsBefore(x, y) ==
    \/ x.dir /\ ~y.dir
    \/ x.dir = y.dir /\ StrLess(Lower(BaseName(x.path)), Lower(BaseName(y.path)))

Finished == {runs[i] : i \in DOMAIN runs}
Returned == {r \in Finished : r.raised = "None"}

\* The eligible children of P that the sequence ft shows
Shown(ft, P) ==
    {e \in Eligible(P) :
        \E j \in RealChildIdx(ft, Locate(ft, P)) :
            ft[j].name = BaseName(e.path) /\ ft[j].is_dir = e.dir}

----------------------------------------------------------------------------
(* C1: a directory scanned at a capped level with K > N eligible children  *)
(* contributes exactly N real child entries, the first N in sort order,    *)
(* and exactly one omission entry at the children's depth.                 *)
CapKeepsFirstN ==
    \A r \in Returned : \A P \in DirPaths :
        LET N == config.max_items_per_level.v
            at == Locate(r.file_tree, P)
        IN  (Scanned(r.file_tree, P) /\ CappedLevel(P)
               /\ Cardinality(Eligible(P)) > N)
            => /\ Cardinality(RealChildIdx(r.file_tree, at)) = N
               /\ Cardinality(Shown(r.file_tree, P)) = N
               /\ \A e \in Shown(r.file_tree, P) :
                    \A x \in Eligible(P) \ Shown(r.file_tree, P) :
                        ~SortsBefore(x, e)
               /\ Cardinality(OmissionIdx(r.file_tree, at)) = 1

(* C2: stats.files + stats.dirs is the number of non-omission entries of   *)
(* the filtered sequence.                                                  *)
StatsCountRealEntries ==
    \A r \in Returned :
        r.files + r.dirs =
            Cardinality({i \in DOMAIN r.file_tree : ~IsOmission(r.file_tree[i])})

(* C3: two scans of the same tree with the same configuration give the     *)
(* same entry sequence and the same rendered output, whatever order the    *)
(* listings come in.                                                       *)
ScanIdempotent ==
    Len(runs) = 2 =>
        /\ runs[1].file_tree = runs[2].file_tree
        /\ runs[1].content = runs[2].content

(* C4: a root that does not exist or is not a directory makes the request  *)
(* fail with an error, and no result envelope is produced.                 *)
InvalidRootFails ==
    \A r \in Finished :
        rootState \in RootErrors => r.raised # "None"

(* C6: with max_depth set no entry has depth >= max_depth; a directory at  *)
(* depth max_depth - 1 is emitted without children; max_depth = 0 gives    *)
(* the empty sequence.                                                     *)
DepthLimit ==
    \A r \in Returned :
        config.max_depth.t = "int" =>
            LET md == config.max_depth.v IN
            /\ \A i \in DOMAIN r.raw : r.raw[i].depth < md
            /\ \A i \in DOMAIN r.file_tree : r.file_tree[i].depth < md
            /\ \A i \in DOMAIN r.file_tree :
                  r.file_tree[i].depth = md - 1 => ChildIdx(r.file_tree, i) = {}
            /\ md = 0 => r.file_tree = <<>>
            \* without a cap, every reachable directory at depth md - 1 is there
            /\ config.max_items_per_level.t = "null" =>
                 \A P \in DirPaths :
                    (/\ Len(P) = md
                     /\ \A k \in 1 .. Len(P) :
                          LET Q == SubSeq(P, 1, k) IN
                          /\ \E e \in Eligible(ParentOf(Q)) : e.path = Q
                          /\ Listable(ParentOf(Q)))
                    => Locate(r.file_tree, P) # -1

\* A directory with children in the tree sits at depth max_depth - 1 of the output
DepthLimitWitness ==
    \E r \in Returned : \E P \in DirPaths :
        /\ config.max_depth.t = "int" /\ Len(P) = config.max_depth.v
        /\ Locate(r.file_tree, P) > 0
        /\ Listable(P) /\ Eligible(P) # {}

(* C7: among the real entries of one directory a directory comes before a  *)
(* file and entries of one kind are in non-decreasing order of their       *)
(* lower-cased names; the cap keeps a prefix of this order.                *)
SiblingOrder ==
    \A r \in Returned :
        /\ \A i \in 0 .. Len(r.file_tree) :
              \A j, k \in RealChildIdx(r.file_tree, i) :
                  j < k =>
                    LET x == r.file_tree[j]
                        y == r.file_tree[k]
                    IN  /\ ~(~x.is_dir /\ y.is_dir)
                        /\ x.is_dir = y.is_dir
                             => ~StrLess(Lower(y.name), Lower(x.name))
        /\ \A P \in DirPaths :
              Scanned(r.file_tree, P) =>
                \A e \in Shown(r.file_tree, P) :
                    \A x \in Eligible(P) \ Shown(r.file_tree, P) :
                        ~SortsBefore(x, e)

\* One directory shows "a" and "B" of one kind, and the cap dropped a child
SiblingOrderWitness ==
    \E r \in Returned : \E P \in DirPaths :
        /\ Scanned(r.file_tree, P)
        /\ \E e, f \in Shown(r.file_tree, P) :
              e.dir = f.dir /\ BaseName(e.path) = <<"a">> /\ BaseName(f.path) = <<"B">>
        /\ Eligible(P) \ Shown(r.file_tree, P) # {}

\* The tree with every directory that cannot be listed made an empty,
\* listable one
AsIfEmpty(tree) ==
    {[e EXCEPT !.listing = "ok"] :
        e \in {x \in tree :
                 \A k \in 1 .. (Len(x.path) - 1) :
                    \A d \in tree :
                       d.path = SubSeq(x.path, 1, k) => d.listing = "ok"}}

Unlistable == {e \in fs : e.dir /\ e.listing # "ok"}

(* C8: when the listing of a directory D fails the scan still completes,   *)
(* D's entry stays, nothing below D appears, and the whole sequence is     *)
(* what it would be were D an empty directory.                             *)
ListingFailureAsEmpty ==
    rootState \in {"ok"} \cup ListingErrors =>
        \A r \in Finished :
            /\ r.raised = "None"
            /\ \E order \in ListingOrders :
                  r.raw = scan_directory(AsIfEmpty(fs), "ok", config,
                                         <<>>, 0, order).tree
            /\ rootState \in ListingErrors => r.raw = <<>>
            /\ \A D \in Unlistable :
                  Locate(r.raw, D.path) > 0
                    => ChildIdx(r.raw, Locate(r.raw, D.path)) = {}

\* A directory that cannot be listed has children in the tree, its entry is in
\* the output and an entry of a sibling follows it
ListingFailureAsEmptyWitness ==
    \E r \in Returned : \E D \in Unlistable :
        /\ \E e \in Eligible(D.path) : TRUE
        /\ Locate(r.raw, D.path) > 0
        /\ Locate(r.raw, D.path) < Len(r.raw)

----------------------------------------------------------------------------
(* C5 *)

\* A pattern matches an entry as the glob rule reads: one ending in '/'
\* matches directories only, with the '/' stripped; the match is a glob match
\* of the name or of the path.
GlobRuleMatches(pattern, name, is_dir) ==
    IF EndsWithSlash(pattern)
    THEN /\ is_dir
         /\ \/ fnmatch(name, SubSeq(pattern, 1, Len(pattern) - 1))
            \/ fnmatch(PathStr(rootState, <<name>>), SubSeq(pattern, 1, Len(pattern) - 1))
    ELSE fnmatch(name, pattern) \/ fnmatch(PathStr(rootState, <<name>>), pattern)

\* C5: should_ignore returns true exactly when ignore_hidden is set and the
\* name starts with '.', or some ignore pattern matches the entry by the glob
\* rule ('*', '?' and character classes such as '[ab]').
IgnoreIsGlobMatch ==
    ig.called =>
        (ig.result <=>
            \/ config.ignore_hidden /\ ig.name[1] = "."
            \/ \E i \in DOMAIN config.ignore_patterns :
                  GlobRuleMatches(config.ignore_patterns[i], ig.name, ig.dir))

----------------------------------------------------------------------------
(* C10 *)

\* C10: in every configuration reached through load_config / from_dict and
\* save_ui_to_config, max_depth is None or an integer >= 0 and
\* max_items_per_level is None or an integer >= 1.
ConfigInRange ==
    /\ \/ config.max_depth = None
       \/ config.max_depth.t = "int" /\ config.max_depth.v >= 0
    /\ \/ config.max_items_per_level = None
       \/ config.max_items_per_level.t = "int"
            /\ config.max_items_per_level.v >= 1

----------------------------------------------------------------------------
(* C9 *)

\* The generation requests started and not yet finished: those whose worker
\* thread runs, and those whose completion callbacks are still queued
InFlight ==
    {t.request : t \in gui.threads}
      \cup {gui.after[i].request : i \in DOMAIN gui.after}

\* C9: at most one generation request is in flight at any time, and the
\* shared Config is not written (by the save_ui_to_config of a later
\* request) while a worker thread runs.
SingleScanInFlight ==
    /\ Cardinality(InFlight) <= 1
    /\ \A t \in gui.threads : t.writes = gui.writes

----------------------------------------------------------------------------
(* C11 *)

\* Every eligible child of the root is a depth-0 entry of ft, and ft has no
\* omission entry at depth 0
RootShownWhole(ft) ==
    /\ Shown(ft, <<>>) = Eligible(<<>>)
    /\ \A i \in DOMAIN ft : IsMarker(ft[i]) => ft[i].depth # 0

\* The smaller of two numbers
Least(a, b) == IF a <= b THEN a ELSE b

\* The cap applies to the scanned directory P of ft: at most N real children
\* are shown, and one omission entry exactly when there are more
CapApplies(ft, P) ==
    LET N == config.max_items_per_level.v
        K == Cardinality(Eligible(P))
    IN  /\ Cardinality(RealChildIdx(ft, Locate(ft, P))) = Least(K, N)
        /\ Cardinality(OmissionIdx(ft, Locate(ft, P))) = (IF K > N THEN 1 ELSE 0)

\* C11 as stated: when unlimit_root_items is true, every non-ignored direct
\* child of the root appears as a depth-0 entry and no omission entry has
\* depth 0, whatever max_items_per_level is.
RootUnlimitedAlways ==
    \A r \in Returned :
        config.unlimit_root_items => RootShownWhole(r.file_tree)

\* C11 as amended: when unlimit_root_items is true and the root is scanned
\* (max_depth is not 0 and the root's listing succeeds), every non-ignored
\* direct child of the root appears as a depth-0 entry and no omission entry
\* has depth 0, whatever max_items_per_level is; the cap still applies to
\* every scanned directory at depth >= 1 (in the scan, where it is applied).
RootUnlimited ==
    \A r \in Returned :
        config.unlimit_root_items =>
            /\ Scanned(r.file_tree, <<>>) => RootShownWhole(r.file_tree)
            /\ \A P \in DirPaths :
                  (Len(P) > 0 /\ Scanned(r.raw, P) /\ CappedLevel(P))
                    => CapApplies(r.raw, P)

\* The root was scanned with unlimit_root_items and has more eligible
\* children than max_items_per_level
RootUnlimitedWitness ==
    \E r \in Returned :
        /\ config.unlimit_root_items
        /\ config.max_items_per_level.t = "int"
        /\ Scanned(r.file_tree, <<>>)
        /\ Cardinality(Eligible(<<>>)) > config.max_items_per_level.v
        /\ Len(r.file_tree) > config.max_items_per_level.v


\* No entry follows item i as if it were below it
NothingBelow(ft, i) == i = Len(ft) \/ ft[i + 1].depth <= ft[i].depth

(* C12: the raw output of scan_directory holds no entry below an omission  *)
(* entry (an omission entry at depth d is followed by the end of the       *)
(* sequence or by an entry of depth <= d), so filter_ellipsis_children     *)
(* returns scan_directory's output unchanged.                              *)
FilterIsRedundant ==
    \A r \in Returned :
        /\ \A i \in DOMAIN r.raw : IsMarker(r.raw[i]) => NothingBelow(r.raw, i)
        /\ r.file_tree = r.raw


\* Entry i lies in the region of the omission entry j: after it, deeper than
\* it, and with nothing as shallow as the omission entry in between
InRegion(ft, j, i) ==
    /\ j < i /\ IsOmission(ft[j])
    /\ \A k \in (j + 1) .. i : ft[k].depth > ft[j].depth

\* The entries outside every region, in order
OutsideRegions(ft) ==
    LET keep == {i \in DOMAIN ft : ~\E j \in DOMAIN ft : InRegion(ft, j, i)}
        nth(n) == CHOOSE i \in keep : Cardinality({k \in keep : k < i}) = n - 1
    IN  [n \in 1 .. Cardinality(keep) |-> ft[nth(n)]]

(* C13: on every depth-tagged sequence filter_ellipsis_children removes    *)
(* exactly the entries deeper than an omission entry that lie between it   *)
(* and the next entry no deeper than it, an omission entry at a deeper     *)
(* depth among them, and keeps the others in order.                        *)
FilterRemovesRegions ==
    \A r \in Returned : r.file_tree = OutsideRegions(r.raw)


\* Entry i is the last child of its parent in ft: no entry of its depth
\* comes later before an entry of a smaller depth
LastChild(ft, i) ==
    \A k \in (i + 1) .. Len(ft) :
        ft[k].depth = ft[i].depth =>
            \E m \in (i + 1) .. (k - 1) : ft[m].depth < ft[i].depth

\* The connector on the line that the ASCII renderer gives entry i
Connector(r, i) == r.content[i + 1][r.file_tree[i].depth + 1]

(* C14: in the ASCII output a real entry is drawn with the corner          *)
(* connector exactly when it is the last child of its parent in the        *)
(* sequence, and with the branch connector otherwise, at every depth.      *)
CornerIffLastChild ==
    \A r \in Returned :
        r.format = "ascii" =>
            \A i \in DOMAIN r.file_tree :
                ~IsMarker(r.file_tree[i]) =>
                    Connector(r, i) = IF LastChild(r.file_tree, i)
                                      THEN "L-- " ELSE "+-- "


\* The ancestor at depth d of entry i in a pre-order sequence: the nearest
\* entry of that depth before it
AncestorAt(ft, i, d) ==
    CHOOSE j \in 1 .. (i - 1) :
        /\ ft[j].depth = d
        /\ \A k \in (j + 1) .. (i - 1) : ft[k].depth # d

(* C15: in the ASCII output the line of an entry at depth d shows the      *)
(* vertical bar in column d' < d exactly when the entry's ancestor at      *)
(* depth d' has a later sibling under the same parent, and blank filler    *)
(* otherwise.                                                              *)
BarsFollowAncestors ==
    \A r \in Returned :
        r.format = "ascii" =>
            \A i \in DOMAIN r.file_tree :
                \A d \in 0 .. (r.file_tree[i].depth - 1) :
                    r.content[i + 1][d + 1] =
                        IF LastChild(r.file_tree, AncestorAt(r.file_tree, i, d))
                        THEN "    " ELSE "|   "


\* The nearest entry before entry i that is less deep, 0 when there is none
NearestShallower(ft, i) ==
    LET before == {j \in 1 .. (i - 1) : ft[j].depth < ft[i].depth}
    IN  IF before = {} THEN 0
        ELSE CHOOSE j \in before : \A k \in before : k <= j

\* The tree path that the sequence gives entry i: the names from its
\* outermost enclosing entry down to its own
RECURSIVE TreePathOf(_, _)
TreePathOf(ft, i) ==
    IF NearestShallower(ft, i) = 0 THEN <<ft[i].name>>
    ELSE Append(TreePathOf(ft, NearestShallower(ft, i)), ft[i].name)

\* The directory e is not dropped by the cap on its parent's children
KeptByCap(e) ==
    CappedLevel(ParentOf(e.path)) =>
        Cardinality({x \in Eligible(ParentOf(e.path)) : SortsBefore(x, e)})
            < config.max_items_per_level.v

\* Entry j of ft is the real directory that holds entry i
ActualParent(ft, j, i) ==
    /\ ft[j].is_dir /\ ~IsMarker(ft[j])
    /\ \E e \in fs :
          /\ e.path = TreePathOf(ft, j) /\ e.dir
          /\ e \in Eligible(ParentOf(e.path))
          /\ KeptByCap(e)
          /\ IF IsMarker(ft[i])
             THEN /\ CappedLevel(e.path)
                  /\ Cardinality(Eligible(e.path)) > config.max_items_per_level.v
             ELSE /\ ft[i].path = <<ft[j].name, ft[i].name>>
                  /\ \E c \in Eligible(e.path) :
                        /\ c.path = Append(e.path, ft[i].name)
                        /\ c.dir = ft[i].is_dir

PreOrderClosedSeq(ft) ==
    /\ ft # <<>> => ft[1].depth = 0
    /\ \A i \in DOMAIN ft :
          ft[i].depth > 0 =>
              /\ NearestShallower(ft, i) # 0
              /\ ft[NearestShallower(ft, i)].depth = ft[i].depth - 1
              /\ ActualParent(ft, NearestShallower(ft, i), i)

(* C16: every scan output is a pre-order listing closed under parents: the *)
(* first entry has depth 0, and the nearest entry of smaller depth before  *)
(* an entry at depth d > 0 has depth d - 1 and is the real directory that  *)
(* holds it: no file, no omission entry, no directory that the cap or an   *)
(* ignore rule dropped.                                                    *)
PreOrderClosed ==
    \A r \in Returned : PreOrderClosedSeq(r.raw) /\ PreOrderClosedSeq(r.file_tree)

PreOrderClosedWitness ==
    \E r \in Returned :
        \E i, k \in DOMAIN r.raw :
            /\ r.raw[i].depth = 1 /\ ~IsMarker(r.raw[i])
            /\ r.raw[k].depth = 1 /\ IsMarker(r.raw[k])
            /\ \E e \in fs : e.dir /\ Locate(r.raw, e.path) = -1


\* The tree path of the directory whose children entry k closes (<<>> is the
\* root)
DirOf(ft, k) ==
    IF NearestShallower(ft, k) = 0 THEN <<>>
    ELSE TreePathOf(ft, NearestShallower(ft, k))

\* The children of that directory which the cap dropped
Dropped(ft, k) == Eligible(DirOf(ft, k)) \ Shown(ft, DirOf(ft, k))

\* The last child kept before the omission entry k is a directory
LastKeptIsDir(ft, k) ==
    LET kept == RealChildIdx(ft, NearestShallower(ft, k))
    IN  /\ kept # {}
        /\ ft[CHOOSE j \in kept : \A m \in kept : m <= j].is_dir

HintExpected(ft, k) ==
    /\ \E e \in Dropped(ft, k) : ~e.dir
    /\ LastKeptIsDir(ft, k)

(* C17: the connector-hint flag of an omission entry is true exactly when  *)
(* a file is among the children the cap dropped and the last kept child is *)
(* a directory; the ASCII renderer draws the omission line with the branch *)
(* connector exactly when the flag is true and with the corner otherwise,  *)
(* wherever the entry stands.                                              *)
HintFlagAndConnector ==
    \A r \in Returned :
        /\ \A k \in DOMAIN r.raw :
              IsMarker(r.raw[k]) =>
                  ((r.raw[k].has_more_files = "True") <=> HintExpected(r.raw, k))
        /\ \A k \in DOMAIN r.file_tree :
              (IsMarker(r.file_tree[k]) /\ r.format = "ascii") =>
                  Connector(r, k) = IF r.file_tree[k].has_more_files = "True"
                                    THEN "+-- " ELSE "L-- "

HintFlagAndConnectorWitness ==
    \E r \in Returned :
        /\ r.format = "ascii"
        /\ \E k \in DOMAIN r.file_tree :
              /\ k = Len(r.file_tree)
              /\ r.file_tree[k].has_more_files = "True"
              /\ r.raw = r.file_tree
              /\ HintExpected(r.raw, k)
              /\ Connector(r, k) = "+-- "

====
